---- MODULE Spec2Model ----
(***************************************************************************)
(* A model of pretty-rocm-smi (src/src/main.rs): the telemetry collector   *)
(* get_gpu_data, the formatter helpers (parse_float, vlen, rpad, lpad,     *)
(* ansi_temp, ansi_ratio) and the renderer in main.                        *)
(*                                                                         *)
(* Representation.                                                         *)
(*  - A Rust string is a sequence of characters; a character is a TLA+     *)
(*    string.  Characters that are not printable ASCII carry a name: ESC   *)
(*    is U+001B, DEG is U+00B0 (2 bytes in UTF-8), ARABIC3 is U+0663 (a    *)
(*    decimal digit that is not ASCII, 2 bytes), and the box-drawing       *)
(*    characters are 3 bytes each.                                         *)
(*  - u32, u64 and usize values are decimal digit sequences (most          *)
(*    significant first, <<0>> for zero), so that values up to 2^64 and    *)
(*    the wrap-around at 2^64 are exact.                                   *)
(*  - An f64 is a rational: a sign and two digit sequences n / d, d > 0.   *)
(*    Arithmetic on it is exact (the rounding of the binary                *)
(*    representation, inf and NaN are not modelled).                       *)
(*  - TLC evaluates an operator's arguments and LET definitions by need,   *)
(*    and again at every use when it measures coverage.  The({e : x \in   *)
(*    {v}}) is e with v for x, v being evaluated once.                     *)
(***************************************************************************)
EXTENDS Integers, Sequences, FiniteSets, TLC

VARIABLES
    pc,               \* position in main / get_gpu_data
    overflow_checks,  \* whether the build traps on integer overflow
    gpus,             \* Vec<GpuSnapshot> being built and enriched
    concise,          \* output of `rocm-smi` (primary listing), once read
    vram_json,        \* parsed output of `rocm-smi --showmeminfo vram --json`
    prod,             \* output of `rocm-smi --showproductname`
    hw,               \* output of `rocm-smi --showhw`
    driver,           \* get_driver_version()
    rocm,             \* get_rocm_version()
    out,              \* lines printed to stdout so far
    summary,          \* the aggregates computed for the summary line
    pf,               \* a call of parse_float: text, done, result
    vl,               \* a call of vlen: text, done, result
    sv                \* a call of ansi_temp and ansi_ratio: values, done, colours

mainVars ==
    <<pc, overflow_checks, gpus, concise, vram_json, prod, hw, driver, rocm, out, summary>>
pureVars == <<pf, vl, sv>>
vars ==
    <<pc, overflow_checks, gpus, concise, vram_json, prod, hw, driver, rocm, out, summary,
      pf, vl, sv>>

The(S) == CHOOSE r \in S : TRUE

---------------------------------------------------------------------------
(* Characters and strings *)

ESC == "ESC"
DEG == "deg"
ARABIC3 == "u0663"
BoxChars ==
    {"b_tl", "b_tr", "b_bl", "b_br", "b_h", "b_v", "b_lj", "b_rj",
     "b_lt", "b_rt", "b_lh", "b_bar"}

AsciiDigit == {"0", "1", "2", "3", "4", "5", "6", "7", "8", "9"}
\* \d of the regex crate is Unicode-aware: any decimal digit
UnicodeDigit == AsciiDigit \cup {ARABIC3}
WhiteSpace == {" ", "\t", "\n", "\r"}

DigitVal(c) ==
    CASE c = "0" -> 0 [] c = "1" -> 1 [] c = "2" -> 2 [] c = "3" -> 3
      [] c = "4" -> 4 [] c = "5" -> 5 [] c = "6" -> 6 [] c = "7" -> 7
      [] c = "8" -> 8 [] c = "9" -> 9

DigitChar(n) ==
    CASE n = 0 -> "0" [] n = 1 -> "1" [] n = 2 -> "2" [] n = 3 -> "3"
      [] n = 4 -> "4" [] n = 5 -> "5" [] n = 6 -> "6" [] n = 7 -> "7"
      [] n = 8 -> "8" [] n = 9 -> "9"

\* the bytes of a character's UTF-8 encoding
Utf8Len(c) ==
    IF c \in BoxChars THEN 3 ELSE IF c \in {DEG, ARABIC3} THEN 2 ELSE 1

\* str::len: the bytes of the text
ByteLen(text) ==
    The({(Len(s) + Cardinality({i \in 1..Len(s) : Utf8Len(s[i]) >= 2})
               + Cardinality({i \in 1..Len(s) : Utf8Len(s[i]) = 3}))
         : s \in {text}})

Rep(c, n) == [i \in 1..n |-> c]

Min(S) == CHOOSE x \in S : \A y \in S : x <= y

\* the strings over alphabet A of length at most n
RECURSIVE StringsUpTo(_, _)
StringsUpTo(A, n) ==
    IF n = 0 THEN {<<>>}
    ELSE The({(S \cup {Append(s, c) : s \in {t \in S : Len(t) = n - 1}, c \in A})
              : S \in {StringsUpTo(A, n - 1)}})

\* first index >= from of text whose character is not in class C
\* (Len(text) + 1 if none)
SkipClass(text, from, C) ==
    The({(CHOOSE k \in p[2]..(Len(p[1]) + 1) :
            /\ k > Len(p[1]) \/ p[1][k] \notin C
            /\ \A j \in p[2]..(k - 1) : p[1][j] \in C)
         : p \in {<<text, from>>}})

\* first index >= from of text whose character is in class C
\* (Len(text) + 1 if none)
FindClass(text, from, C) ==
    The({(CHOOSE k \in p[2]..(Len(p[1]) + 1) :
            /\ k > Len(p[1]) \/ p[1][k] \in C
            /\ \A j \in p[2]..(k - 1) : p[1][j] \notin C)
         : p \in {<<text, from>>}})

\* whether the literal lit occurs in s at index i
MatchesAt(s, i, lit) ==
    /\ i + Len(lit) - 1 <= Len(s)
    /\ \A k \in 1..Len(lit) : s[i + k - 1] = lit[k]

\* last index of s whose character is not white space (0 if none)
LastNonSpace(s) ==
    CHOOSE k \in 0..Len(s) :
        /\ k = 0 \/ s[k] \notin WhiteSpace
        /\ \A i \in (k + 1)..Len(s) : s[i] \in WhiteSpace

\* str::trim
Trim(text) ==
    The({(The({(IF b[1] > b[2] THEN <<>> ELSE SubSeq(s, b[1], b[2]))
             : b \in {<<SkipClass(s, 1, WhiteSpace), LastNonSpace(s)>>}}))
         : s \in {text}})

\* the k-th smallest element of a set of integers
Nth(S, k) == CHOOSE i \in S : Cardinality({j \in S : j <= i}) = k

\* str::split_whitespace, collected: the maximal runs of characters that
\* are not white space
SplitWhitespace(text) ==
    The({([k \in 1..Cardinality(starts) |->
              The({(SubSeq(s, b, FindClass(s, b, WhiteSpace) - 1))
                   : b \in {Nth(starts, k)}})])
         : s \in {text},
           starts \in {{i \in 1..Len(text) :
                           /\ text[i] \notin WhiteSpace
                           /\ i = 1 \/ text[i - 1] \in WhiteSpace}}})

\* the line of s that starts at index b: up to the next \n, without the \r
\* of a \r\n
LineAt(s, b) ==
    The({(SubSeq(s, b, IF e <= Len(s) /\ e > b /\ s[e - 1] = "\r"
                       THEN e - 2 ELSE e - 1))
         : e \in {FindClass(s, b, {"\n"})}})

\* str::lines, collected: a line starts at index 1 and after every \n; no
\* line starts after the last character
Lines(text) ==
    The({([k \in 1..Cardinality(starts) |-> LineAt(s, Nth(starts, k))])
         : s \in {text},
           starts \in {{i \in 1..Len(text) : i = 1 \/ text[i - 1] = "\n"}}})

StartsWithAsciiDigit(s) == s # <<>> /\ s[1] \in AsciiDigit

---------------------------------------------------------------------------
(* u32 / u64 / usize: digit sequences, most significant digit first *)

BigZero == <<0>>
BigOne == <<1>>

\* the digits without leading zeros
StripZeros(digits) ==
    The({(IF \A i \in 1..Len(d) : d[i] = 0 THEN BigZero
        ELSE SubSeq(d, Min({i \in 1..Len(d) : d[i] # 0}), Len(d)))
         : d \in {digits}})

\* the number written by a text of ASCII digits
BigOf(chars) ==
    The({(StripZeros([i \in 1..Len(s) |-> DigitVal(s[i])]))
         : s \in {chars}})

\* Display of an unsigned integer
BigChars(b) == The({([i \in 1..Len(d) |-> DigitChar(d[i])])
                    : d \in {b}})

BigLess(a0, b0) ==
    The({(IF Len(a) # Len(b) THEN Len(a) < Len(b)
        ELSE \E i \in 1..Len(a) :
                 /\ a[i] < b[i]
                 /\ \A j \in 1..(i - 1) : a[j] = b[j])
         : a \in {a0}, b \in {b0}})

PadTo(d, n) == Rep(0, n - Len(d)) \o d

\* the carry into digit i of x + y (x and y of one length): the nearest
\* digit after i whose sum is not 9 has a sum of 10 or more
AddCarry(x, y, i) ==
    IF \E j \in (i + 1)..Len(x) :
           /\ x[j] + y[j] >= 10
           /\ \A k \in (i + 1)..(j - 1) : x[k] + y[k] = 9
    THEN 1 ELSE 0

BigAdd(a0, b0) ==
    The({(The({(The({(StripZeros([i \in 1..(n + 1) |->
                    IF i = 1 THEN AddCarry(x, y, 0)
                    ELSE (x[i - 1] + y[i - 1] + AddCarry(x, y, i - 1)) % 10]))
                 : x \in {PadTo(a, n)}, y \in {PadTo(b, n)}}))
             : n \in {IF Len(a) > Len(b) THEN Len(a) ELSE Len(b)}}))
         : a \in {a0}, b \in {b0}})

\* the borrow taken from digit i of x - y (x and y of one length)
SubBorrow(x, y, i) ==
    IF \E j \in (i + 1)..Len(x) :
           /\ x[j] < y[j]
           /\ \A k \in (i + 1)..(j - 1) : x[k] = y[k]
    THEN 1 ELSE 0

\* a - b for a >= b
BigSub(a0, b0) ==
    The({(The({(StripZeros([i \in 1..Len(a) |->
                (a[i] - y[i] - SubBorrow(a, y, i) + 10) % 10]))
             : y \in {PadTo(b, Len(a))}}))
         : a \in {a0}, b \in {b0}})

\* a * k for a digit k
BigMulDigit(a0, k0) ==
    The({(IF k = 0 THEN BigZero
        ELSE IF k = 1 THEN a
        ELSE The({(IF k = 2 THEN a2
                 ELSE IF k = 3 THEN BigAdd(a2, a)
                 ELSE The({(CASE k = 4 -> a4
                            [] k = 5 -> BigAdd(a4, a)
                            [] k = 6 -> BigAdd(a4, a2)
                            [] k = 7 -> BigAdd(a4, BigAdd(a2, a))
                            [] k = 8 -> BigAdd(a4, a4)
                            [] k = 9 -> BigAdd(BigAdd(a4, a4), a))
                           : a4 \in {BigAdd(a2, a2)}}))
                  : a2 \in {BigAdd(a, a)}}))
         : a \in {a0}, k \in {k0}})

\* a * (the first j digits of b), given acc = a * (the first j - 1 digits)
RECURSIVE MulFrom(_, _, _, _)
MulFrom(a, b, j, acc) ==
    IF j > Len(b) THEN acc
    ELSE The({(MulFrom(a, b, j2, acc2))
              : j2 \in {j + 1}, acc2 \in {BigAdd(Append(acc, 0), BigMulDigit(a, b[j]))}})

BigMul(a0, b0) ==
    The({(IF Len(a) >= Len(b) THEN MulFrom(a, b, 1, BigZero) ELSE MulFrom(b, a, 1, BigZero))
         : a \in {a0}, b \in {b0}})

\* the largest digit k with m[k] <= cur, m[k] being b * k
Fits(cur, m) ==
    CHOOSE k \in 0..9 :
        /\ ~BigLess(cur, m[k])
        /\ k = 9 \/ BigLess(cur, m[k + 1])

\* one step of long division: digit st.i of a is brought down
DivStep(a, m, st) ==
    The({(The({([i |-> st.i + 1, r |-> BigSub(cur, m[k]), q |-> Append(st.q, k)])
             : k \in {Fits(cur, m)}}))
         : cur \in {StripZeros(Append(st.r, a[st.i]))}})

RECURSIVE BigDivFrom(_, _, _)
BigDivFrom(a, m, st) ==
    IF st.i > Len(a) THEN [q |-> StripZeros(st.q), r |-> st.r]
    ELSE The({(BigDivFrom(a, m, st2))
              : st2 \in {DivStep(a, m, st)}})

\* quotient and remainder of a / b for b > 0
BigDivMod(a0, b0) ==
    The({(BigDivFrom(a, m, [i |-> 1, r |-> BigZero, q |-> <<>>]))
         : a \in {a0}, m \in {[k \in 0..9 |-> BigMulDigit(b0, k)]}})

\* a number below 10^9 as an integer of the model, and back
RECURSIVE SmallFrom(_, _, _)
SmallFrom(d, i, acc) ==
    IF i > Len(d) THEN acc
    ELSE The({(SmallFrom(d, i2, acc2))
              : i2 \in {i + 1}, acc2 \in {acc * 10 + d[i]}})
SmallOf(b) == The({(SmallFrom(d, 1, 0))
                   : d \in {b}})

RECURSIVE BigOfSmall(_)
BigOfSmall(n) ==
    IF n < 10 THEN <<n>> ELSE Append(BigOfSmall(n \div 10), n % 10)

U32Max == <<4, 2, 9, 4, 9, 6, 7, 2, 9, 5>>
U64Max == <<1, 8, 4, 4, 6, 7, 4, 4, 0, 7, 3, 7, 0, 9, 5, 5, 1, 6, 1, 5>>
TwoTo64 == <<1, 8, 4, 4, 6, 7, 4, 4, 0, 7, 3, 7, 0, 9, 5, 5, 1, 6, 1, 6>>

None == [some |-> FALSE, v |-> BigZero]
Some(v) == [some |-> TRUE, v |-> v]

\* <uN as FromStr>::from_str: an optional "+", then one or more ASCII
\* digits; Err on any other text and on a value above max
ParseUnsigned(text, max) ==
    The({(The({(IF body = <<>> \/ \E i \in 1..Len(body) : body[i] \notin AsciiDigit
            THEN None
            ELSE The({(IF BigLess(max, v) THEN None ELSE Some(v))
                      : v \in {BigOf(body)}}))
             : body \in {IF s # <<>> /\ s[1] = "+" THEN Tail(s) ELSE s}}))
         : s \in {text}})

ParseU32(s) == ParseUnsigned(s, U32Max)
ParseU64(s) == ParseUnsigned(s, U64Max)
\* usize of a 64-bit target
ParseUsize(s) == ParseUnsigned(s, U64Max)

---------------------------------------------------------------------------
(* f64 as exact rationals *)

Rat(n, d) == [neg |-> FALSE, n |-> n, d |-> d]
Lit(n, d) == Rat(BigOfSmall(n), BigOfSmall(d))
Zero == Rat(BigZero, BigOne)
\* -r
RatNeg(r) == The({([a EXCEPT !.neg = ~a.neg /\ a.n # BigZero])
                  : a \in {r}})

\* a < b
RatLess(a0, b0) ==
    The({(IF a.neg # b.neg THEN a.neg
        ELSE The({(IF a.neg THEN BigLess(y, x) ELSE BigLess(x, y))
                  : x \in {BigMul(a.n, b.d)}, y \in {BigMul(b.n, a.d)}}))
         : a \in {a0}, b \in {b0}})
RatGE(a, b) == ~RatLess(a, b)
RatGT(a, b) == RatLess(b, a)
RatEq(a, b) == ~RatLess(a, b) /\ ~RatLess(b, a)

\* a + b for a, b >= 0
RatAdd(a0, b0) ==
    The({(Rat(BigAdd(BigMul(a.n, b.d), BigMul(b.n, a.d)), BigMul(a.d, b.d)))
         : a \in {a0}, b \in {b0}})

\* a / b for a >= 0, b > 0
RatDiv(a0, b0) ==
    The({(Rat(BigMul(a.n, b.d), BigMul(a.d, b.n)))
         : a \in {a0}, b \in {b0}})

Pow10(k) == <<1>> \o Rep(0, k)

\* <f64 as FromStr>::from_str on a text of digits and points: Ok for ASCII
\* digits with at most one point and at least one digit
ParseF64(run) ==
    The({(The({(IF \/ Cardinality(dots) > 1
               \/ Cardinality(dots) = Len(s)
               \/ \E i \in 1..Len(s) : s[i] \notin AsciiDigit \cup {"."}
            THEN [ok |-> FALSE, v |-> Zero]
            ELSE The({([ok |-> TRUE,
                      v |-> Rat(BigOf(SubSeq(s, 1, p - 1) \o SubSeq(s, p + 1, Len(s))),
                                Pow10(IF p > Len(s) THEN 0 ELSE Len(s) - p))])
                      : p \in {IF dots = {} THEN Len(s) + 1 ELSE Min(dots)}}))
             : dots \in {{i \in 1..Len(s) : s[i] = "."}}}))
         : s \in {run}})

\* the first match of the class cls, repeated: None if no character of s is
\* in cls
FirstRun(text, cls) ==
    The({(The({(IF b > Len(s) THEN [found |-> FALSE, run |-> <<>>]
            ELSE [found |-> TRUE, run |-> SubSeq(s, b, SkipClass(s, b, cls) - 1)])
             : b \in {FindClass(s, 1, cls)}}))
         : s \in {text}})

\* .and_then(|m| m.as_str().parse().ok()).unwrap_or(0.0)
ParseOrZero(m) ==
    The({(IF ~c.found THEN Zero
        ELSE The({(IF r.ok THEN r.v ELSE Zero)
                  : r \in {ParseF64(c.run)}}))
         : c \in {m}})

\* Regex::new(r"([\d.]+)")
NumberClass == UnicodeDigit \cup {"."}

\* a variant with the class \d, without the point
parse_float_digits_only(s) == ParseOrZero(FirstRun(s, UnicodeDigit))

\* fn parse_float(s: &str) -> f64
parse_float(s) == ParseOrZero(FirstRun(s, NumberClass))

---------------------------------------------------------------------------
(* mod ansi, ansi_temp, ansi_ratio *)

RESET == <<ESC, "[", "0", "m">>
BOLD == <<ESC, "[", "1", "m">>
DIM == <<ESC, "[", "2", "m">>
RED == <<ESC, "[", "9", "1", "m">>
GREEN == <<ESC, "[", "9", "2", "m">>
YELLOW == <<ESC, "[", "9", "3", "m">>
CYAN == <<ESC, "[", "9", "6", "m">>
WHITE == <<ESC, "[", "9", "7", "m">>

\* fn ansi_temp(val: f64) -> &'static str
ansi_temp(val) ==
    IF RatGE(val, Lit(90, 1)) THEN RED
    ELSE IF RatGE(val, Lit(75, 1)) THEN YELLOW
    ELSE IF RatGE(val, Lit(50, 1)) THEN WHITE
    ELSE GREEN

\* a variant whose third test is ratio >= 0.0
ansi_ratio_nonneg(ratio) ==
    IF RatGE(ratio, Lit(9, 10)) THEN RED
    ELSE IF RatGE(ratio, Lit(7, 10)) THEN YELLOW
    ELSE IF RatGE(ratio, Zero) THEN GREEN
    ELSE DIM

\* fn ansi_ratio(ratio: f64) -> &'static str
ansi_ratio(ratio) ==
    IF RatGE(ratio, Lit(9, 10)) THEN RED
    ELSE IF RatGE(ratio, Lit(7, 10)) THEN YELLOW
    ELSE IF RatGT(ratio, Zero) THEN GREEN
    ELSE DIM

---------------------------------------------------------------------------
(* vlen, rpad, lpad *)

\* [0-9;]
SgrParam == AsciiDigit \cup {";"}

\* the indices of the match of \x1b\[[0-9;]*m that starts at index i of s
\* ({} if none does)
EscSpan(s, i) ==
    IF i + 1 <= Len(s) /\ s[i] = ESC /\ s[i + 1] = "["
    THEN The({(IF e <= Len(s) /\ s[e] = "m" THEN i..e ELSE {})
              : e \in {SkipClass(s, i + 2, SgrParam)}})
    ELSE {}

\* re.replace_all(s, ""): a match starts with ESC and holds no other ESC,
\* so no two matches overlap and every one of them is replaced
StripAnsi(text) ==
    The({(The({([k \in 1..Len(kept) |-> kept[k][2]])
               : kept \in {SelectSeq([i \in 1..Len(s) |-> <<i, s[i]>>],
                                     LAMBDA p : p[1] \notin matched)}}))
         : s \in {text},
           matched \in {The({(UNION {EscSpan(t, i) : i \in 1..Len(t)}) : t \in {text}})}})

\* fn vlen(s: &str) -> usize: str::len of the text without its escapes
vlen(s) == ByteLen(StripAnsi(s))

\* fn rpad(s: &str, w: usize) -> String
rpad(text, w) ==
    The({(The({(IF vis < w THEN s \o Rep(" ", w - vis) ELSE s)
               : vis \in {vlen(s)}}))
         : s \in {text}})

\* fn lpad(s: &str, w: usize) -> String
lpad(text, w) ==
    The({(The({(IF vis < w THEN Rep(" ", w - vis) \o s ELSE s)
               : vis \in {vlen(s)}}))
         : s \in {text}})

---------------------------------------------------------------------------
(* Formatting: {:.0}, {:.1}, {:>3}; bytes_to_gib, bytes_to_mib *)

\* |x| * 10^places rounded to an integer, a tie to the even one
RoundScaled(x, places) ==
    The({(The({(The({(IF \/ BigLess(r.d, twice)
                         \/ twice = r.d /\ dm.q[Len(dm.q)] % 2 = 1
                      THEN BigAdd(dm.q, BigOne)
                      ELSE dm.q)
                     : twice \in {BigMulDigit(dm.r, 2)}}))
               : dm \in {BigDivMod(StripZeros(r.n \o Rep(0, places)), r.d)}}))
         : r \in {x}})

\* format!("{:.places$}", x)
FmtFixed(x, places) ==
    The({(The({((IF r.neg THEN <<"-">> ELSE <<>>)
                \o SubSeq(ds, 1, Len(ds) - places)
                \o (IF places > 0
                    THEN <<".">> \o SubSeq(ds, Len(ds) - places + 1, Len(ds))
                    ELSE <<>>))
               : ds \in {Rep("0", places + 1 - Len(raw)) \o raw}}))
         : r \in {x}, raw \in {BigChars(RoundScaled(x, places))}})

\* format!("{:>w$}", s): padded on the left to w characters
FmtRight(text, w) ==
    The({(Rep(" ", w - Len(s)) \o s) : s \in {text}})

TwoTo30 == <<1, 0, 7, 3, 7, 4, 1, 8, 2, 4>>
TwoTo20 == <<1, 0, 4, 8, 5, 7, 6>>

\* fn bytes_to_gib(b: u64) -> f64
bytes_to_gib(b) == Rat(b, TwoTo30)

\* fn bytes_to_mib(b: u64) -> u64
bytes_to_mib(b) == BigDivMod(b, TwoTo20).q

---------------------------------------------------------------------------
(* struct GpuSnapshot and get_gpu_data: primary enumeration *)

\* parts[k] of the Rust code (zero-based)
TokenAt(parts, k) == parts[k + 1]

\* GpuSnapshot { id, temp, power, power_cap, gpu_pct, ..Default::default() }
NewSnapshot(id, parts) ==
    [id |-> id,
     name |-> <<>>,
     gfx_ver |-> <<>>,
     temp |-> parse_float(TokenAt(parts, 4)),
     power |-> parse_float(TokenAt(parts, 5)),
     power_cap |-> parse_float(TokenAt(parts, 13)),
     gpu_pct |-> IF Len(parts) > 15 THEN parse_float(TokenAt(parts, 15)) ELSE Zero,
     vram_total |-> BigZero,
     vram_used |-> BigZero]

MinTokens == 15

\* a variant that asks for 16 tokens
TooFewTokensOffByOne(parts) == Len(parts) <= MinTokens

\* if parts.len() < 15 { continue; }
TooFewTokens(parts) == Len(parts) < MinTokens

\* a variant that reads the id from parts[1]
IdTokenNode(parts) == TokenAt(parts, 1)

\* the token parsed as the id: parts[0]
IdToken(parts) == TokenAt(parts, 0)

\* if let Ok(id) = parts[0].parse::<u32>() { gpus.push(..) }
PushParsed(parts) ==
    The({(IF id.some THEN <<NewSnapshot(id.v, parts)>> ELSE <<>>)
         : id \in {ParseU32(IdToken(parts))}})

\* the body of the loop for a trimmed line: the records it pushes
PrimaryTrimmed(line) ==
    IF line = <<>> \/ ~StartsWithAsciiDigit(line) THEN <<>>
    ELSE The({(IF TooFewTokens(parts) THEN <<>> ELSE PushParsed(parts))
              : parts \in {SplitWhitespace(line)}})

\* one iteration of the loop over concise.lines()
PrimaryLine(raw) == The({(PrimaryTrimmed(line)) : line \in {Trim(raw)}})

\* iterations i.. of the loop, gs the records pushed so far
RECURSIVE PrimaryLoop(_, _, _)
PrimaryLoop(lines, i, gs) ==
    IF i > Len(lines) THEN gs
    ELSE The({(PrimaryLoop(lines, i2, gs2))
              : i2 \in {i + 1}, gs2 \in {gs \o PrimaryLine(lines[i])}})

PrimaryEnumeration(text) ==
    The({(PrimaryLoop(lines, 1, <<>>)) : lines \in {Lines(text)}})

---------------------------------------------------------------------------
(* get_gpu_data: memory enrichment *)

\* serde_json::Value: "null", "u64" (a number as_u64 accepts), "f64" (any
\* other number), "string", "object" (m: its members, a sequence of [k, v])
JNull == [t |-> "null", n |-> BigZero, s |-> <<>>, m |-> <<>>]
JU64(b) == [t |-> "u64", n |-> b, s |-> <<>>, m |-> <<>>]
JF64 == [t |-> "f64", n |-> BigZero, s |-> <<>>, m |-> <<>>]
JString(s) == [t |-> "string", n |-> BigZero, s |-> s, m |-> <<>>]
JObject(m) == [t |-> "object", n |-> BigZero, s |-> <<>>, m |-> m]
Member(k, v) == [k |-> k, v |-> v]

\* serde_json::from_str: Err for a text that is no JSON document
JsonErr == [ok |-> FALSE, value |-> JNull]
JsonOk(v) == [ok |-> TRUE, value |-> v]

NotFound == [found |-> FALSE, v |-> JNull]

\* Value::get(key) / Map::get(key): None unless an object holding the key
JGet(v, key) ==
    IF v.t = "object" /\ \E i \in 1..Len(v.m) : v.m[i].k = key
    THEN [found |-> TRUE,
          v |-> v.m[Min({i \in 1..Len(v.m) : v.m[i].k = key})].v]
    ELSE NotFound

KeyTotal == 
    <<"V", "R", "A", "M", " ", "T", "o", "t", "a", "l", " ", "M", "e", "m",
      "o", "r", "y", " ", "(", "B", ")">>
KeyUsed == 
    <<"V", "R", "A", "M", " ", "T", "o", "t", "a", "l", " ", "U", "s", "e",
      "d", " ", "M", "e", "m", "o", "r", "y", " ", "(", "B", ")">>

\* format!("card{}", i)
CardKey(i) == <<"c", "a", "r", "d">> \o BigChars(BigOfSmall(i))

\* a variant without the as_str() branch
VramCountNumbersOnly(v) == IF v.t = "u64" THEN v.n ELSE BigZero

\* v.as_str().and_then(|s| s.parse().ok()).or_else(|| v.as_u64()).unwrap_or(0)
VramCount(v) ==
    The({(IF p.some THEN p.v
          ELSE IF v.t = "u64" THEN v.n
          ELSE BigZero)
         : p \in {IF v.t = "string" THEN ParseU64(v.s) ELSE None}})

\* the body of `for (i, gpu) in gpus.iter_mut().enumerate()`, i zero-based
EnrichVramOne(gpu, i, map) ==
    The({(IF ~card.found THEN gpu
          ELSE The({([gpu EXCEPT
                         !.vram_total = IF total.found THEN VramCount(total.v) ELSE @,
                         !.vram_used = IF used.found THEN VramCount(used.v) ELSE @])
                    : total \in {JGet(card.v, KeyTotal)},
                      used \in {JGet(card.v, KeyUsed)}}))
         : card \in {JGet(map, CardKey(i))}})

\* if let Ok(Value::Object(map)) = serde_json::from_str(&vram_json) { .. }
EnrichVram(gs, doc) ==
    IF doc.ok /\ doc.value.t = "object"
    THEN [i \in 1..Len(gs) |-> EnrichVramOne(gs[i], i - 1, doc.value)]
    ELSE gs

---------------------------------------------------------------------------
(* get_gpu_data: name and architecture enrichment *)

LitGpu == <<"G", "P", "U", "[">>
LitCardSeries == 
    <<"C", "a", "r", "d", " ", "S", "e", "r", "i", "e", "s", ":">>

NoMatch == [ok |-> FALSE, idx |-> <<>>, name |-> <<>>, end |-> 0]

\* a match of GPU\[(\d+)\]\s*:\s*Card Series:\s*(.*) starting at index i:
\* the two captures and the index of the last character matched
NameMatchAt(s, i) ==
    IF ~MatchesAt(s, i, LitGpu) THEN NoMatch
    ELSE LET d1 == i + Len(LitGpu)
             d2 == SkipClass(s, d1, UnicodeDigit)
         IN IF d2 = d1 \/ d2 > Len(s) \/ s[d2] # "]" THEN NoMatch
            ELSE LET a == SkipClass(s, d2 + 1, WhiteSpace)
                 IN IF a > Len(s) \/ s[a] # ":" THEN NoMatch
                    ELSE LET b == SkipClass(s, a + 1, WhiteSpace)
                         IN IF ~MatchesAt(s, b, LitCardSeries) THEN NoMatch
                            ELSE The({([ok |-> TRUE,
                                        idx |-> SubSeq(s, d1, d2 - 1),
                                        name |-> SubSeq(s, c, FindClass(s, c, {"\n"}) - 1),
                                        end |-> FindClass(s, c, {"\n"}) - 1])
                                      : c \in {SkipClass(s, b + Len(LitCardSeries),
                                                         WhiteSpace)}})

\* re_name.captures_iter(&prod): the matches from index i on, left to right,
\* each search starting after the match before
RECURSIVE NameMatchesFrom(_, _)
NameMatchesFrom(s, i) ==
    The({(IF starts = {} THEN <<>>
          ELSE The({(<<[idx |-> m.idx, name |-> m.name]>>
                     \o NameMatchesFrom(s, m.end + 1))
                    : m \in {NameMatchAt(s, Min(starts))}}))
         : starts \in {{k \in i..Len(s) : NameMatchAt(s, k).ok}}})

NameMatches(text) == The({(NameMatchesFrom(s, 1)) : s \in {text}})

\* `if i < gpus.len()` for a parsed usize i
IndexInRange(i, gs) == BigLess(i, BigOfSmall(Len(gs)))

\* a variant that writes gfx_ver as well
SetNameAlsoGfx(gs, m) ==
    The({(IF i.some /\ IndexInRange(i.v, gs)
          THEN [gs EXCEPT ![SmallOf(i.v) + 1].name = Trim(m.name),
                          ![SmallOf(i.v) + 1].gfx_ver = Trim(m.name)]
          ELSE gs)
         : i \in {ParseUsize(m.idx)}})

\* the body of the loop over the matches: gpus[i].name = name.trim()
SetName(gs, m) ==
    The({(IF i.some /\ IndexInRange(i.v, gs)
          THEN [gs EXCEPT ![SmallOf(i.v) + 1].name = Trim(m.name)]
          ELSE gs)
         : i \in {ParseUsize(m.idx)}})

RECURSIVE EnrichNameLoop(_, _, _)
EnrichNameLoop(gs, ms, k) ==
    IF k > Len(ms) THEN gs
    ELSE The({(EnrichNameLoop(gs2, ms, k2))
              : gs2 \in {SetName(gs, ms[k])}, k2 \in {k + 1}})

EnrichName(gs, text) ==
    The({(EnrichNameLoop(gs, ms, 1)) : ms \in {NameMatches(text)}})

MinHwTokens == 10

\* if parts.len() >= 10 { if let Ok(id) = .. { if id < gpus.len() { .. } } }
SetGfx(gs, parts) ==
    IF Len(parts) >= MinHwTokens
    THEN The({(IF id.some /\ IndexInRange(id.v, gs)
               THEN [gs EXCEPT ![SmallOf(id.v) + 1].gfx_ver = TokenAt(parts, 4)]
               ELSE gs)
              : id \in {ParseUsize(TokenAt(parts, 0))}})
    ELSE gs

\* one iteration of the loop over hw.lines()
EnrichHwLine(gs, raw) ==
    The({(IF line = <<>> \/ ~StartsWithAsciiDigit(line) THEN gs
          ELSE The({(SetGfx(gs, parts)) : parts \in {SplitWhitespace(line)}}))
         : line \in {Trim(raw)}})

RECURSIVE EnrichHwLoop(_, _, _)
EnrichHwLoop(gs, lines, k) ==
    IF k > Len(lines) THEN gs
    ELSE The({(EnrichHwLoop(gs2, lines, k2))
              : gs2 \in {EnrichHwLine(gs, lines[k])}, k2 \in {k + 1}})

EnrichHw(gs, text) ==
    The({(EnrichHwLoop(gs, lines, 1)) : lines \in {Lines(text)}})

---------------------------------------------------------------------------
(* Outputs of the diagnostic tool that the runs draw from (run_cmd) *)

\* the texts of toks with sep between them
RECURSIVE JoinWith(_, _)
JoinWith(toks, sep) ==
    IF toks = <<>> THEN <<>>
    ELSE IF Len(toks) = 1 THEN toks[1]
    ELSE The({(front \o sep \o toks[Len(toks)])
              : front \in {JoinWith(SubSeq(toks, 1, Len(toks) - 1), sep)}})

\* each line followed by a line feed
RECURSIVE JoinLines(_)
JoinLines(ls) ==
    IF ls = <<>> THEN <<>>
    ELSE The({(front \o ls[Len(ls)] \o <<"\n">>)
              : front \in {JoinLines(SubSeq(ls, 1, Len(ls) - 1))}})

\* the first 15 columns of a row of the concise table
RowTokens(id, temp, power, cap) ==
    <<id, <<"2">>, <<"0", "x", "7", "4", "a", "1", ",">>, <<"2", "8", "8", "5", "1">>,
      temp, power,
      <<"N", "P", "S", "1", ",">>, <<"S", "P", "X", ",">>, <<"0">>,
      <<"1", "3", "2", "M", "h", "z">>, <<"9", "0", "0", "M", "h", "z">>,
      <<"0", "%">>, <<"a", "u", "t", "o">>, cap, <<"0", "%">>>>

Row15(id, temp, power, cap) == JoinWith(RowTokens(id, temp, power, cap), <<" ", " ">>)
Row16(id, temp, power, cap, util) ==
    JoinWith(Append(RowTokens(id, temp, power, cap), util), <<" ", " ">>)

\* device 0: 92 degrees, 300 W of 320 W, 95 %
LineGpu0 ==
    Row16(<<"0">>, <<"9", "2", ".", "0", DEG, "C">>, <<"3", "0", "0", ".", "0", "W">>,
          <<"3", "2", "0", ".", "0", "W">>, <<"9", "5", "%">>)
\* device 1, indented and ending in a carriage return: 40 degrees, 50 W of
\* 300 W, 0 %
LineGpu1 ==
    <<" ", "\t">>
    \o Row16(<<"1">>, <<"4", "0", ".", "0", DEG, "C">>, <<"5", "0", ".", "0", "W">>,
             <<"3", "0", "0", ".", "0", "W">>, <<"0", "%">>)
    \o <<"\r">>
\* 15 tokens, the id written 00
LineGpu00 ==
    Row15(<<"0", "0">>, <<"4", "5", ".", "2", "C">>, <<"1", "2", "0", "W">>,
          <<"2", "5", "0", "W">>)
\* token 0 starts with a digit and is no number
LineBadId ==
    Row16(<<"1", "a">>, <<"3", "0", ".", "0", DEG, "C">>, <<"1", "0", ".", "0", "W">>,
          <<"3", "0", "0", ".", "0", "W">>, <<"5", "%">>)
\* 14 tokens
LineShort ==
    JoinWith(SubSeq(RowTokens(<<"2">>, <<"3", "0", ".", "0", DEG, "C">>,
                              <<"1", "0", ".", "0", "W">>, <<"3", "0", "0", ".", "0", "W">>),
                    1, 14),
             <<" ">>)
\* the heading of the table: 16 tokens, the first no digit
LineHeader ==
    JoinWith(<<<<"D", "e", "v", "i", "c", "e">>, <<"N", "o", "d", "e">>, <<"I", "D", "s">>,
               <<"(", "D", "I", "D", ",">>, <<"G", "U", "I", "D", ")">>,
               <<"T", "e", "m", "p">>, <<"P", "o", "w", "e", "r">>,
               <<"P", "a", "r", "t", "i", "t", "i", "o", "n", "s">>,
               <<"S", "C", "L", "K">>, <<"M", "C", "L", "K">>, <<"F", "a", "n">>,
               <<"P", "e", "r", "f">>, <<"P", "w", "r", "C", "a", "p">>,
               <<"V", "R", "A", "M", "%">>, <<"G", "P", "U", "%">>, <<"0">>>>,
             <<" ">>)

\* the lines the primary listing is made of, and how many of them
CollectLines == {LineGpu0, LineGpu1, LineGpu00, LineBadId, LineShort, LineHeader}
MainLines == {LineGpu0, LineGpu1}
MaxLines == 2

ConciseOutputs(lineSet) == {JoinLines(ls) : ls \in StringsUpTo(lineSet, MaxLines)}

GiB1 == <<1, 0, 7, 3, 7, 4, 1, 8, 2, 4>>
GiB16 == <<1, 7, 1, 7, 9, 8, 6, 9, 1, 8, 4>>
GiB20 == <<2, 1, 4, 7, 4, 8, 3, 6, 4, 8, 0>>
GiB24 == <<2, 5, 7, 6, 9, 8, 0, 3, 7, 7, 6>>
MiB512 == <<5, 3, 6, 8, 7, 0, 9, 1, 2>>

Card(total, used) == JObject(<<Member(KeyTotal, total), Member(KeyUsed, used)>>)

\* the example document: total as a string, used as a number
DocStringTotal ==
    JsonOk(JObject(<<Member(CardKey(0), Card(JString(BigChars(GiB1)), JU64(MiB512)))>>))
\* the same counts with the encodings swapped, and a second card without "used"
DocNumberTotal ==
    JsonOk(JObject(<<Member(CardKey(0), Card(JU64(GiB1), JString(BigChars(MiB512)))),
                     Member(CardKey(1), JObject(<<Member(KeyTotal, JU64(GiB16))>>))>>))
DocCard1Only ==
    JsonOk(JObject(<<Member(CardKey(1), Card(JU64(GiB24), JU64(GiB20)))>>))
DocNotCounts ==
    JsonOk(JObject(<<Member(CardKey(0), Card(JF64, JString(<<"N", "/", "A">>))),
                     Member(CardKey(1), JString(<<"b", "u", "s", "y">>))>>))
DocTwoDevices ==
    JsonOk(JObject(<<Member(CardKey(0), Card(JU64(GiB24), JU64(GiB20))),
                     Member(CardKey(1), Card(JString(BigChars(GiB16)),
                             JString(BigChars(GiB1))))>>))
DocHuge ==
    JsonOk(JObject(<<Member(CardKey(0), Card(JU64(U64Max), JU64(MiB512))),
                     Member(CardKey(1), Card(JString(BigChars(U64Max)), JU64(GiB1)))>>))

CollectDocs ==
    {JsonErr, JsonOk(JNull), JsonOk(JObject(<<>>)), DocStringTotal, DocNumberTotal,
     DocCard1Only, DocNotCounts}
MainDocs == {JsonErr, DocTwoDevices, DocHuge, DocNumberTotal}

ProdTwo == 
    <<"G", "P", "U", "[", "0", "]", "\t", "\t", ":", " ", "C", "a", "r",
      "d", " ", "S", "e", "r", "i", "e", "s", ":", " ", "\t", "\t", "A",
      "M", "D", " ", "I", "n", "s", "t", "i", "n", "c", "t", " ", "M", "I",
      "3", "0", "0", "X", "\n", "G", "P", "U", "[", "5", "]", "\t", "\t",
      ":", " ", "C", "a", "r", "d", " ", "S", "e", "r", "i", "e", "s", ":",
      " ", "\t", "\t", "G", "h", "o", "s", "t", "\n">>
ProdSecond == 
    <<"G", "P", "U", "[", "1", "]", " ", ":", " ", "C", "a", "r", "d", " ",
      "S", "e", "r", "i", "e", "s", ":", " ", "R", "a", "d", "e", "o", "n",
      " ", "P", "R", "O", " ", "W", "7", "9", "0", "0", " ", "\r", "\n">>
ProdFar == 
    <<"G", "P", "U", "[", "7", "]", ":", " ", "C", "a", "r", "d", " ", "S",
      "e", "r", "i", "e", "s", ":", "X", "\n">>
CollectProds == {<<>>, ProdTwo, ProdSecond, ProdFar}
MainProds == {<<>>, ProdTwo}

HwHeading == 
    <<"G", "P", "U", " ", " ", "N", "O", "D", "E", " ", " ", "D", "I", "D",
      " ", " ", "G", "U", "I", "D", " ", " ", "G", "F", "X", " ", "V", "E",
      "R", " ", " ", "G", "F", "X", " ", "R", "A", "S", " ", " ", "S", "D",
      "M", "A", " ", "R", "A", "S", " ", " ", "U", "M", "C", " ", "R", "A",
      "S", " ", " ", "V", "B", "I", "O", "S", " ", " ", "B", "U", "S", " ",
      " ", "P", "A", "R", "T", "I", "T", "I", "O", "N", " ", "I", "D">>
HwShortRow == <<"0", " ", "2", " ", "0", "x", "7", "4", "a", "1", " ", "2", "8", "8", "5", "1",
        " ", "g", "f", "x", "0", "0", "0">>
Enabled == <<"E", "N", "A", "B", "L", "E", "D">>

\* a row of the hardware table: 11 tokens
HwRow(id, gfx) ==
    JoinWith(<<id, <<"2">>, <<"0", "x", "7", "4", "a", "1">>, <<"2", "8", "8", "5", "1">>, gfx,
               Enabled, Enabled, Enabled,
               <<"1", "1", "3", "-", "M", "3", "0", "0", "0", "1", "0", "0">>,
               <<"0", "0", "0", "0", ":", "0", "C", ":", "0", "0", ".", "0">>, <<"0">>>>,
             <<" ", " ">>)
HwBoth ==
    JoinLines(<<HwHeading, HwRow(<<"0">>, <<"g", "f", "x", "9", "4", "2">>),
                HwRow(<<"1">>, <<"g", "f", "x", "9", "0", "a">>)>>)
\* a row for index 9, and a row for index 0 of 5 tokens
HwFar == JoinLines(<<HwRow(<<"9">>, <<"g", "f", "x", "1", "1", "0", "0">>), HwShortRow>>)
CollectHws == {<<>>, HwBoth, HwFar}
MainHws == {<<>>, HwBoth}

---------------------------------------------------------------------------
(* get_gpu_data, step by step: each step runs one sub-command *)

NoSummary ==
    [reported |-> FALSE, count |-> <<>>, used_gib |-> <<>>, total_gib |-> <<>>,
     pc |-> <<>>, power |-> <<>>, cap |-> <<>>, tc |-> <<>>, avg |-> <<>>]
IdlePf == [text |-> <<>>, done |-> TRUE, result |-> Zero]
IdleVl == [text |-> <<>>, done |-> TRUE, result |-> 0]
IdleSv == [temp_k |-> 0, ratio_k |-> 0, done |-> TRUE, tc |-> GREEN, rc |-> DIM]

\* nothing collected, nothing printed
NoData ==
    /\ gpus = <<>>
    /\ concise = <<>>
    /\ vram_json = JsonErr
    /\ prod = <<>>
    /\ hw = <<>>
    /\ driver = <<>>
    /\ rocm = <<>>
    /\ out = <<>>
    /\ summary = NoSummary

InitMain ==
    /\ pc = "primary"
    /\ NoData
    /\ pf = IdlePf
    /\ vl = IdleVl
    /\ sv = IdleSv

\* let concise = run_cmd("rocm-smi", &[]); for line in concise.lines() { .. }
Primary(outputs) ==
    /\ pc = "primary"
    /\ \E text \in outputs :
        /\ concise' = text
        /\ gpus' = PrimaryEnumeration(text)
    /\ pc' = "vram"
    /\ UNCHANGED <<overflow_checks, vram_json, prod, hw, driver, rocm, out, summary, pureVars>>

\* let vram_json = run_cmd(.. "--showmeminfo", "vram", "--json"); ..
Vram(outputs) ==
    /\ pc = "vram"
    /\ \E doc \in outputs :
        /\ vram_json' = doc
        /\ gpus' = EnrichVram(gpus, doc)
    /\ pc' = "name"
    /\ UNCHANGED <<overflow_checks, concise, prod, hw, driver, rocm, out, summary, pureVars>>

\* let prod = run_cmd("rocm-smi", &["--showproductname"]); ..
Name(outputs) ==
    /\ pc = "name"
    /\ \E text \in outputs :
        /\ prod' = text
        /\ gpus' = EnrichName(gpus, text)
    /\ pc' = "hw"
    /\ UNCHANGED <<overflow_checks, concise, vram_json, hw, driver, rocm, out, summary,
            pureVars>>

\* let hw = run_cmd("rocm-smi", &["--showhw"]); ..; gpus
Hw(outputs) ==
    /\ pc = "hw"
    /\ \E text \in outputs :
        /\ hw' = text
        /\ gpus' = EnrichHw(gpus, text)
    /\ pc' = "driver"
    /\ UNCHANGED <<overflow_checks, concise, vram_json, prod, driver, rocm, out, summary,
            pureVars>>

InitCollect == InitMain /\ overflow_checks = FALSE

NextCollect ==
    \/ Primary(ConciseOutputs(CollectLines))
    \/ Vram(CollectDocs)
    \/ Name(CollectProds)
    \/ Hw(CollectHws)

\* get_gpu_data alone, over the wider set of sub-command outputs
SpecCollect == InitCollect /\ [][NextCollect]_vars

---------------------------------------------------------------------------
(* get_driver_version, get_rocm_version *)

LitDriver == 
    <<"D", "r", "i", "v", "e", "r", " ", "v", "e", "r", "s", "i", "o", "n",
      ":">>
NotAvailable == <<"N", "/", "A">>

\* the capture of the first match of Driver version:\s*(\S+), or "N/A"
get_driver_version(text) ==
    The({(IF starts = {} THEN NotAvailable
          ELSE The({(SubSeq(s, c, FindClass(s, c, WhiteSpace) - 1))
                    : c \in {SkipClass(s, Min(starts) + Len(LitDriver), WhiteSpace)}}))
         : s \in {text},
           starts \in {{i \in 1..Len(text) :
                           /\ MatchesAt(text, i, LitDriver)
                           /\ SkipClass(text, i + Len(LitDriver), WhiteSpace)
                                  <= Len(text)}}})

\* std::fs::read_to_string("/opt/rocm/.info/version")
FileErr == [ok |-> FALSE, content |-> <<>>]
FileOk(content) == [ok |-> TRUE, content |-> content]

\* content.trim().split('-').next(), kept when it starts with an ASCII digit
get_rocm_version(file) ==
    IF ~file.ok THEN NotAvailable
    ELSE The({(IF StartsWithAsciiDigit(v) THEN v ELSE NotAvailable)
              : v \in {The({(SubSeq(t, 1, FindClass(t, 1, {"-"}) - 1))
                            : t \in {Trim(file.content)}})}})

---------------------------------------------------------------------------
(* main: the report *)

W == 79

LitTitle == 
    <<"p", "r", "e", "t", "t", "y", "-", "r", "o", "c", "m", "-", "s", "m",
      "i">>
\* Local::now().format("%a %b %d %H:%M:%S %Y"): 24 characters
Timestamp == 
    <<"T", "u", "e", " ", "N", "o", "v", " ", "0", "3", " ", "0", "4", ":",
      "4", "3", ":", "0", "0", " ", "2", "0", "2", "6">>
LitColumns == 
    <<"G", "P", "U", " ", " ", " ", "T", "e", "m", "p", " ", " ", " ", " ",
      "P", "o", "w", "e", "r", " ", "U", "s", "a", "g", "e", " ", " ", " ",
      " ", " ", " ", " ", " ", " ", "V", "R", "A", "M", " ", "U", "s", "a",
      "g", "e", " ", " ", " ", " ", " ", " ", " ", " ", " ", " ", " ", "G",
      "P", "U", "%">>
LitAmdGpu == 
    <<"A", "M", "D", " ", "G", "P", "U">>
LitDriverLabel == 
    <<"D", "r", "i", "v", "e", "r", ":", " ">>
LitRocmLabel == 
    <<"R", "O", "C", "m", ":", " ">>

\* a printed line: what it is and its text
Printed(kind, text) == [kind |-> kind, text |-> text]

Border(left, fill, right) ==
    Printed("border", CYAN \o <<left>> \o Rep(fill, W) \o <<right>> \o RESET)

\* println!("{}║{}..{}║{}", CYAN, RESET, .., CYAN, RESET)
Boxed(kind, inner) ==
    Printed(kind, CYAN \o <<"b_v">> \o RESET \o inner \o CYAN \o <<"b_v">> \o RESET)

TitleLine ==
    Boxed("title",
          <<" ">> \o BOLD \o CYAN \o LitTitle \o RESET
          \o Rep(" ", W - 2 - ByteLen(LitTitle) - ByteLen(Timestamp))
          \o DIM \o Timestamp \o RESET \o <<" ">>)

\* w.saturating_sub(1 + info_plain.len())
InfoPad(info_plain) ==
    The({(IF W > need THEN W - need ELSE 0) : need \in {1 + ByteLen(info_plain)}})

InfoText(gpu_name, gfx_ver, drv, rcm) ==
    <<" ">> \o BOLD \o gpu_name \o RESET \o <<" ">> \o DIM \o <<"(">> \o gfx_ver \o <<")">>
    \o RESET \o <<" ">> \o DIM \o LitDriverLabel \o RESET \o BOLD \o drv
    \o <<" ", " ">> \o DIM \o LitRocmLabel \o RESET \o BOLD \o rcm \o RESET
    \o Rep(" ", InfoPad(gpu_name \o <<" ", "(">> \o gfx_ver \o <<")", " ">>
                        \o LitDriverLabel \o drv \o <<" ", " ">> \o LitRocmLabel \o rcm))

InfoLine(gs, drv, rcm) ==
    Boxed("info",
          InfoText(IF gs # <<>> THEN gs[1].name ELSE LitAmdGpu,
                   IF gs # <<>> THEN gs[1].gfx_ver ELSE <<>>, drv, rcm))

HeaderLine == Boxed("header", rpad(<<" ">> \o BOLD \o WHITE \o LitColumns \o RESET, W))

id_s(gpu) == BOLD \o WHITE \o FmtRight(BigChars(gpu.id), 3) \o RESET

temp_s(gpu) == ansi_temp(gpu.temp) \o FmtFixed(gpu.temp, 0) \o <<DEG, "C">> \o RESET

\* if cap > 0.0 { power / cap } else { 0.0 }
RatioOrZero(power, cap) == IF RatGT(cap, Zero) THEN RatDiv(power, cap) ELSE Zero

power_s(gpu) ==
    The({(ansi_ratio(pwr_ratio) \o FmtFixed(gpu.power, 0) \o <<"W">> \o RESET
          \o <<" ">> \o DIM \o <<"/", " ">> \o FmtFixed(gpu.power_cap, 0)
          \o <<"W">> \o RESET)
         : pwr_ratio \in {RatioOrZero(gpu.power, gpu.power_cap)}})

used_disp(gpu) ==
    The({(IF BigLess(mib, <<1, 0, 2, 4>>)
          THEN BigChars(mib) \o <<"M", "i", "B">>
          ELSE FmtFixed(bytes_to_gib(gpu.vram_used), 1) \o <<"G", "i", "B">>)
         : mib \in {bytes_to_mib(gpu.vram_used)}})

vram_s(gpu) ==
    The({(ansi_ratio(vr) \o used_disp(gpu) \o RESET \o <<" ">> \o DIM \o <<"/", " ">>
          \o FmtFixed(bytes_to_gib(gpu.vram_total), 0) \o <<"G", "i", "B">> \o RESET)
         : vr \in {IF gpu.vram_total # BigZero
                   THEN Rat(gpu.vram_used, gpu.vram_total) ELSE Zero}})

util_s(gpu) ==
    The({(ansi_ratio(ratio) \o (IF RatGE(gpu.gpu_pct, Lit(90, 1)) THEN BOLD ELSE <<>>)
          \o FmtFixed(gpu.gpu_pct, 0) \o <<"%">> \o RESET)
         : ratio \in {RatDiv(gpu.gpu_pct, Lit(100, 1))}})

\* the body of `for gpu in &gpus`
RowLine(gpu) ==
    The({(Boxed("row", rpad(<<" ">> \o c1 \o <<" ", " ", " ">> \o c2 \o <<" ", " ", " ">>
                            \o c3 \o <<" ", " ", " ">> \o c4 \o <<" ", " ", " ">> \o c5,
                            W)))
         : c1 \in {lpad(id_s(gpu), 3)},
           c2 \in {lpad(temp_s(gpu), 5)},
           c3 \in {rpad(power_s(gpu), 19)},
           c4 \in {rpad(vram_s(gpu), 19)},
           c5 \in {lpad(util_s(gpu), 4)}})

\* everything main prints before the summary
Report(gs, drv, rcm) ==
    <<Border("b_tl", "b_h", "b_tr"), TitleLine, InfoLine(gs, drv, rcm),
      Border("b_lj", "b_h", "b_rj"), HeaderLine, Border("b_lt", "b_lh", "b_rt")>>
    \o [i \in 1..Len(gs) |-> RowLine(gs[i])]
    \o <<Border("b_bl", "b_h", "b_br")>>

\* one addition of sum::<u64>(): modulo 2^64, overflowed once it wrapped
AddU64(acc, x) ==
    The({(IF BigLess(U64Max, t)
          THEN [v |-> BigSub(t, TwoTo64), overflowed |-> TRUE]
          ELSE [v |-> t, overflowed |-> acc.overflowed])
         : t \in {BigAdd(acc.v, x)}})

\* gpus.iter().map(..).sum::<u64>() from element i on
RECURSIVE SumU64(_, _, _)
SumU64(xs, i, acc) ==
    IF i > Len(xs) THEN acc
    ELSE The({(SumU64(xs, i2, acc2)) : i2 \in {i + 1}, acc2 \in {AddU64(acc, xs[i])}})

\* gpus.iter().map(..).sum::<f64>() from element i on
RECURSIVE SumF64(_, _, _)
SumF64(xs, i, acc) ==
    IF i > Len(xs) THEN acc
    ELSE The({(SumF64(xs, i2, acc2)) : i2 \in {i + 1}, acc2 \in {RatAdd(acc, xs[i])}})

NoOverflow == [v |-> BigZero, overflowed |-> FALSE]
TotalVram(gs) == SumU64([i \in 1..Len(gs) |-> gs[i].vram_total], 1, NoOverflow)
UsedVram(gs) == SumU64([i \in 1..Len(gs) |-> gs[i].vram_used], 1, NoOverflow)
TotalPower(gs) == SumF64([i \in 1..Len(gs) |-> gs[i].power], 1, Zero)
TotalCap(gs) == SumF64([i \in 1..Len(gs) |-> gs[i].power_cap], 1, Zero)

\* if !temps.is_empty() { temps.iter().sum::<f64>() / temps.len() as f64 } else { 0.0 }
AvgTemp(gs) ==
    IF gs # <<>>
    THEN RatDiv(SumF64([i \in 1..Len(gs) |-> gs[i].temp], 1, Zero),
                Rat(BigOfSmall(Len(gs)), BigOne))
    ELSE Zero

Bar == DIM \o <<"b_bar">> \o RESET

LitTotal == <<"T", "o", "t", "a", "l", ":">>
LitGpus == <<" ", "G", "P", "U", "s", " ", " ">>
LitVram == <<" ", " ", "V", "R", "A", "M", ":", " ">>
LitGib == <<" ", "G", "i", "B", " ", " ">>
LitPower == <<" ", " ", "P", "o", "w", "e", "r", ":", " ">>
LitWatts == <<"W", " ", " ">>
LitAvgTemp == <<" ", " ", "A", "v", "g", " ", "T", "e", "m", "p", ":", " ">>

\* the println! of the summary line, for the texts of its seven values
SummaryText(f) ==
    <<" ">> \o DIM \o LitTotal \o RESET \o <<" ">> \o BOLD \o f.count \o RESET
    \o LitGpus \o Bar \o LitVram \o f.used_gib \o <<"/">> \o f.total_gib
    \o LitGib \o Bar \o LitPower \o f.pc \o f.power \o <<"W">> \o RESET \o DIM
    \o <<"/">> \o f.cap \o LitWatts \o Bar \o LitAvgTemp \o f.tc \o f.avg
    \o <<DEG, "C">> \o RESET

\* the values the summary line shows, as it shows them
SummaryFields(gs) ==
    The({([reported |-> TRUE,
           count |-> BigChars(BigOfSmall(Len(gs))),
           used_gib |-> FmtFixed(bytes_to_gib(UsedVram(gs).v), 1),
           total_gib |-> FmtFixed(bytes_to_gib(TotalVram(gs).v), 0),
           pc |-> ansi_ratio(RatioOrZero(total_power, total_cap)),
           power |-> FmtFixed(total_power, 0),
           cap |-> FmtFixed(total_cap, 0),
           tc |-> ansi_temp(avg_temp),
           avg |-> FmtFixed(avg_temp, 0)])
         : total_power \in {TotalPower(gs)},
           total_cap \in {TotalCap(gs)},
           avg_temp \in {AvgTemp(gs)}})

SumOverflows(gs) == TotalVram(gs).overflowed \/ UsedVram(gs).overflowed

---------------------------------------------------------------------------
(* main, after get_gpu_data *)

Banner == 
    <<"=", "=", "=", "=", "=", "=", "=", "=", "=", " ", "R", "O", "C", "m",
      " ", "S", "y", "s", "t", "e", "m", " ", "M", "a", "n", "a", "g", "e",
      "m", "e", "n", "t", " ", "I", "n", "t", "e", "r", "f", "a", "c", "e",
      " ", "=", "=", "=", "=", "=", "=", "=", "=", "=">>

\* outputs of `rocm-smi --showdriver`
DriverOutputs ==
    {<<>>,
     Banner \o <<"\n">> \o LitDriver \o <<" ", "6", ".", "1", "0", ".", "5">> \o <<"\n">>}
\* what reading /opt/rocm/.info/version gives
VersionFiles ==
    {FileErr,
     FileOk(<<"6", ".", "2", ".", "4", "-", "1", "2", "0">> \o <<"\n">>),
     FileOk(<<"u", "n", "k", "n", "o", "w", "n">>)}

InitRun == InitMain /\ overflow_checks \in BOOLEAN

\* let driver = get_driver_version();
Driver ==
    /\ pc = "driver"
    /\ \E text \in DriverOutputs : driver' = get_driver_version(text)
    /\ pc' = "rocm"
    /\ UNCHANGED <<overflow_checks, gpus, concise, vram_json, prod, hw, rocm, out, summary,
                   pureVars>>

\* let rocm = get_rocm_version();
Rocm ==
    /\ pc = "rocm"
    /\ \E file \in VersionFiles : rocm' = get_rocm_version(file)
    /\ pc' = "render"
    /\ UNCHANGED <<overflow_checks, gpus, concise, vram_json, prod, hw, driver, out, summary,
                   pureVars>>

\* the println! calls from the top border to the bottom border
Render ==
    /\ pc = "render"
    /\ out' = Report(gpus, driver, rocm)
    /\ pc' = "summary"
    /\ UNCHANGED <<overflow_checks, gpus, concise, vram_json, prod, hw, driver, rocm, summary,
                   pureVars>>

\* the sums, the summary line and the empty line after it
Summary ==
    /\ pc = "summary"
    /\ ~(overflow_checks /\ SumOverflows(gpus))
    /\ \E f \in {SummaryFields(gpus)} :
        /\ summary' = f
        /\ out' = out \o <<Printed("summary", SummaryText(f)), Printed("empty", <<>>)>>
    /\ pc' = "done"
    /\ UNCHANGED <<overflow_checks, gpus, concise, vram_json, prod, hw, driver, rocm, pureVars>>

\* `attempt to add with overflow` in sum::<u64>() of a build with overflow
\* checks
SummaryPanic ==
    /\ pc = "summary"
    /\ overflow_checks /\ SumOverflows(gpus)
    /\ pc' = "panic"
    /\ UNCHANGED <<overflow_checks, gpus, concise, vram_json, prod, hw, driver, rocm, out,
                   summary, pureVars>>

Next ==
    \/ Primary(ConciseOutputs(MainLines))
    \/ Vram(MainDocs)
    \/ Name(MainProds)
    \/ Hw(MainHws)
    \/ Driver
    \/ Rocm
    \/ Render
    \/ Summary
    \/ SummaryPanic

\* one run of main
Spec == InitRun /\ [][Next]_vars

---------------------------------------------------------------------------
(* parse_float, vlen, ansi_temp and ansi_ratio on their own *)

NoRun == pc = "idle" /\ overflow_checks = FALSE /\ NoData

NumberWithUnit == <<"4", "5", ".", "2", "C">>
NoiseChars == {"1", ".", "x", ARABIC3}
MaxNoise == 2

\* nothing or "45.2C", between two texts of at most MaxNoise noise characters
PfTexts ==
    {p \o c \o s : p \in StringsUpTo(NoiseChars, MaxNoise),
                   c \in {<<>>, NumberWithUnit},
                   s \in StringsUpTo(NoiseChars, MaxNoise)}

InitParseFloat ==
    /\ NoRun
    /\ pf \in {[text |-> t, done |-> FALSE, result |-> Zero] : t \in PfTexts}
    /\ vl = IdleVl
    /\ sv = IdleSv

CallParseFloat ==
    /\ ~pf.done
    /\ pf' = [pf EXCEPT !.done = TRUE, !.result = parse_float(pf.text)]
    /\ UNCHANGED <<mainVars, vl, sv>>

SpecParseFloat == InitParseFloat /\ [][CallParseFloat]_vars

VlPieces == {RED, RESET, <<"9">>, <<DEG>>, <<"C">>, <<" ">>}
MaxPieces == 3

\* at most MaxPieces pieces, one after the other
VlTexts == {JoinWith(ps, <<>>) : ps \in StringsUpTo(VlPieces, MaxPieces)}

InitVlen ==
    /\ NoRun
    /\ pf = IdlePf
    /\ vl \in {[text |-> t, done |-> FALSE, result |-> 0] : t \in VlTexts}
    /\ sv = IdleSv

CallVlen ==
    /\ ~vl.done
    /\ vl' = [vl EXCEPT !.done = TRUE, !.result = vlen(vl.text)]
    /\ UNCHANGED <<mainVars, pf, sv>>

SpecVlen == InitVlen /\ [][CallVlen]_vars

MaxOffset == 3

\* thousandths: around the thresholds, and around 0
TempMillis == {t * 1000 + o : t \in {0, 50, 75, 90}, o \in (0 - MaxOffset)..MaxOffset}
RatioMillis == {r + o : r \in {0, 700, 900}, o \in (0 - MaxOffset)..MaxOffset}

\* k / 1000 as an f64
Millis(k) == IF k < 0 THEN RatNeg(Lit(0 - k, 1000)) ELSE Lit(k, 1000)

InitSeverity ==
    /\ NoRun
    /\ pf = IdlePf
    /\ vl = IdleVl
    /\ sv \in {[temp_k |-> t, ratio_k |-> r, done |-> FALSE, tc |-> <<>>, rc |-> <<>>] :
                  t \in TempMillis, r \in RatioMillis}

\* let tc = ansi_temp(..); let pc = ansi_ratio(..);
CallSeverity ==
    /\ ~sv.done
    /\ sv' = [sv EXCEPT !.done = TRUE,
                        !.tc = ansi_temp(Millis(sv.temp_k)),
                        !.rc = ansi_ratio(Millis(sv.ratio_k))]
    /\ UNCHANGED <<mainVars, pf, vl>>

SpecSeverity == InitSeverity /\ [][CallSeverity]_vars

---------------------------------------------------------------------------
(* Properties *)

\* the tokens of a line of the primary listing
TokensOfLine(line) == SplitWhitespace(Trim(line))

\* a text of ASCII digits that denotes a u32
IsU32Text(t) ==
    /\ t # <<>>
    /\ \A i \in 1..Len(t) : t[i] \in AsciiDigit
    /\ ~BigLess(U32Max, BigOf(t))

\* begins with a digit and has at least 15 tokens
DigitLineOf15(line) ==
    /\ Trim(line) # <<>>
    /\ Trim(line)[1] \in AsciiDigit
    /\ Len(TokensOfLine(line)) >= 15

\* the lines of text that yield a record: of those, the ones whose token 0
\* denotes a u32
RecordLines(text) ==
    {k \in 1..Len(Lines(text)) :
        /\ DigitLineOf15(Lines(text)[k])
        /\ IsU32Text(TokensOfLine(Lines(text)[k])[1])}

\* the number written by token 0 of line k of text
IdOfLine(text, k) == BigOf(TokensOfLine(Lines(text)[k])[1])

DistinctIds(gs) ==
    \A i \in 1..Len(gs) : \A j \in 1..Len(gs) : i # j => gs[i].id # gs[j].id

\* C1 (as stated): no run of main ends in a panic, whatever the sub-commands
\* print, the sums over vram_total and vram_used included.
C1_NeverPanics == pc # "panic"

\* A run of a build with overflow checks has panicked in the summation,
\* the table printed and the summary line not.
C1_PanicAfterTable ==
    /\ pc = "panic"
    /\ overflow_checks
    /\ Len(out) > 0
    /\ \A i \in 1..Len(out) : out[i].kind # "summary"

\* C2 (amended): after primary enumeration the ids of the records are
\* pairwise distinct whenever no two lines that yield a record write the
\* same number as token 0.
C2_DistinctIdsOfDistinctTokens ==
    pc # "primary" =>
        \/ DistinctIds(gpus)
        \/ \E a \in RecordLines(concise) : \E b \in RecordLines(concise) :
              a # b /\ IdOfLine(concise, a) = IdOfLine(concise, b)

\* Two lines with different numbers as token 0 have given two records with
\* different ids.
C2_TwoDistinct ==
    /\ pc # "primary"
    /\ Len(gpus) = 2
    /\ Cardinality(RecordLines(concise)) = 2
    /\ gpus[1].id = <<1>>
    /\ gpus[2].id = <<0>>

\* C2 (as stated): after primary enumeration the ids of the records are
\* pairwise distinct, for every primary listing.
C2_AlwaysDistinctIds == pc # "primary" => DistinctIds(gpus)

\* the record built from the tokens of a line
RecordOfTokens(g, parts) ==
    /\ g.id = BigOf(parts[1])
    /\ g.temp = parse_float(parts[5])
    /\ g.power = parse_float(parts[6])
    /\ g.power_cap = parse_float(parts[14])
    /\ g.gpu_pct = IF Len(parts) >= 16 THEN parse_float(parts[16]) ELSE Zero

\* the records are those of the lines S of the listing, in the order of
\* the lines
RecordsOfLines(gs, text, S) ==
    /\ Len(gs) = Cardinality(S)
    /\ \A j \in 1..Len(gs) : RecordOfTokens(gs[j], TokensOfLine(Lines(text)[Nth(S, j)]))

\* C3 (amended): when primary enumeration returns it has built exactly one record per line
\* that, trimmed, begins with a digit, has at least 15 tokens and whose
\* token 0 is a decimal u32, in the order of the lines; every other line
\* gives no record; id, temp, power, power_cap come from tokens 0, 4, 5, 13
\* and gpu_pct from token 15 if present, else 0.
C3_OneRecordPerAcceptedLine ==
    pc = "vram" => RecordsOfLines(gpus, concise, RecordLines(concise))

\* A line of 16 tokens with id 1 and then a line of exactly 15 tokens with
\* id 00 have given two records, in that order.
C3_TwoAccepted ==
    /\ pc = "vram"
    /\ concise = JoinLines(<<LineGpu1, LineGpu00>>)
    /\ Len(gpus) = 2
    /\ gpus[1].id = <<1>>
    /\ gpus[2].id = <<0>>
    /\ gpus[2].temp = Lit(452, 10)
    /\ gpus[2].gpu_pct = Zero

\* C3 (as stated): one record per line that, trimmed, begins with a digit
\* and has at least 15 tokens.
C3_OneRecordPerDigitLine ==
    pc = "vram" =>
        RecordsOfLines(gpus, concise,
                       {k \in 1..Len(Lines(concise)) : DigitLineOf15(Lines(concise)[k])})

\* the byte count a JSON value encodes: a number, or a string of digits
\* denoting a u64; 0 for any other value
CountOf(v) ==
    IF v.t = "u64" THEN v.n
    ELSE IF /\ v.t = "string"
            /\ v.s # <<>>
            /\ \A i \in 1..Len(v.s) : v.s[i] \in AsciiDigit
            /\ ~BigLess(U64Max, BigOf(v.s))
    THEN BigOf(v.s)
    ELSE BigZero

\* the members of object v under key
MembersAt(v, key) ==
    IF v.t = "object" THEN {k \in 1..Len(v.m) : v.m[k].k = key} ELSE {}

\* the count under doc["card<i>"][key], 0 if there is none
CountUnder(doc, i, key) ==
    IF ~doc.ok \/ MembersAt(doc.value, CardKey(i)) = {} THEN BigZero
    ELSE LET card == doc.value.m[Min(MembersAt(doc.value, CardKey(i)))].v
         IN IF MembersAt(card, key) = {} THEN BigZero
            ELSE CountOf(card.m[Min(MembersAt(card, key))].v)

\* C4: after memory enrichment the record at list position i (from 0) has
\* as vram_total and vram_used the byte counts under "card<i>" of the JSON
\* mapping, the same for a count written as a number and as a string of
\* digits, and 0 where the card or the key is missing.
C4_CountsByPosition ==
    pc \in {"name", "hw", "driver"} =>
        \A i \in 1..Len(gpus) :
            /\ gpus[i].vram_total = CountUnder(vram_json, i - 1, KeyTotal)
            /\ gpus[i].vram_used = CountUnder(vram_json, i - 1, KeyUsed)

\* The record with id 1, first in the list, took the counts of card0 (one a
\* number, one a string); the record with id 0, second, took the total of
\* card1 and kept used at 0 for want of the key.
C4_SecondRecordFirstCard ==
    /\ pc = "name"
    /\ vram_json = DocNumberTotal
    /\ Len(gpus) = 2
    /\ gpus[1].id = <<1>>
    /\ gpus[1].vram_total = GiB1
    /\ gpus[1].vram_used = MiB512
    /\ gpus[2].id = <<0>>
    /\ gpus[2].vram_total = GiB16
    /\ gpus[2].vram_used = BigZero

DigitOrPoint == UnicodeDigit \cup {"."}

\* where the first character of s that is a digit or a point stands
\* (Len(s) + 1 if there is none)
FirstNumberChar(s) ==
    Min({i \in 1..Len(s) : s[i] \in DigitOrPoint} \cup {Len(s) + 1})

\* the first maximal run of digits and points of s
FirstNumberRun(s) ==
    LET from == FirstNumberChar(s)
        stops == {i \in from..Len(s) : s[i] \notin DigitOrPoint} \cup {Len(s) + 1}
    IN SubSeq(s, from, Min(stops) - 1)

PointsOf(run) == {i \in 1..Len(run) : run[i] = "."}

\* a decimal number: ASCII digits, at least one, and at most one point
IsDecimal(run) ==
    /\ \A i \in 1..Len(run) : run[i] \in AsciiDigit \cup {"."}
    /\ Cardinality(PointsOf(run)) <= 1
    /\ Len(run) > Cardinality(PointsOf(run))

\* x is the number the decimal run writes
IsValueOf(x, run) ==
    LET digits == SelectSeq(run, LAMBDA c : c # ".")
        places == IF PointsOf(run) = {} THEN 0 ELSE Len(run) - Min(PointsOf(run))
    IN /\ ~x.neg
       /\ StripZeros(BigMul(x.n, Pow10(places))) = StripZeros(BigMul(BigOf(digits), x.d))

HasAsciiDigit(s) == \E i \in 1..Len(s) : s[i] \in AsciiDigit

\* C5 (amended): parse_float takes the first maximal run of digits and
\* points of the text and returns the number it writes if the run is a
\* decimal number (ASCII digits, at least one, at most one point), else 0.0;
\* so it returns 0.0 for a text without a digit, and 45.2 for a text where
\* "45.2C" follows characters that are neither digits nor points.
C5_FirstRunOrZero ==
    pf.done =>
        /\ IsDecimal(FirstNumberRun(pf.text)) => IsValueOf(pf.result, FirstNumberRun(pf.text))
        /\ ~IsDecimal(FirstNumberRun(pf.text)) => RatEq(pf.result, Zero)
        /\ ~HasAsciiDigit(pf.text) => RatEq(pf.result, Zero)
        /\ \A i \in 1..Len(pf.text) :
              (MatchesAt(pf.text, i, NumberWithUnit) /\ FirstNumberChar(pf.text) = i)
              => RatEq(pf.result, Lit(452, 10))

\* parse_float has returned 45.2 for "x45.2C1."
C5_NumberAfterLetter ==
    /\ pf.done
    /\ pf.text = <<"x">> \o NumberWithUnit \o <<"1", ".">>
    /\ RatEq(pf.result, Lit(452, 10))

\* C5 (as stated): parse_float returns 0.0 if the text has no run of digits,
\* and 45.2 for every text that contains "45.2C".
C5_AnyTextContaining ==
    pf.done =>
        /\ ~HasAsciiDigit(pf.text) => RatEq(pf.result, Zero)
        /\ (\E i \in 1..Len(pf.text) : MatchesAt(pf.text, i, NumberWithUnit))
           => RatEq(pf.result, Lit(452, 10))

\* the text is made of colour escapes only
OnlyEscapes(s) == UNION {EscSpan(s, i) : i \in 1..Len(s)} = 1..Len(s)

\* C6 (as stated): vlen is 0 for a text made of colour escapes only, and
\* the number of characters of a text without escapes, the degree sign
\* counting as one.
C6_VisibleCharacters ==
    vl.done =>
        /\ OnlyEscapes(vl.text) => vl.result = 0
        /\ (\A i \in 1..Len(vl.text) : vl.text[i] # ESC) => vl.result = Len(vl.text)

\* vlen has returned 3, the number of bytes, for the two characters of a
\* degree sign and a letter.
C6_DegreeCountsTwo ==
    /\ vl.done
    /\ vl.text = <<DEG, "C">>
    /\ vl.result = 3

\* what a boxed line shows between its two vertical bars
InnerOf(text) ==
    SubSeq(text, Len(CYAN) + 1 + Len(RESET) + 1, Len(text) - (Len(CYAN) + 1 + Len(RESET)))

\* the columns a text takes on the terminal
VisibleColumns(text) == Len(StripAnsi(text))

\* C7 (as stated): the title line, the info line, the header line and every
\* device row show exactly 79 columns between the vertical bars.
C7_BoxedLinesAre79 ==
    \A i \in 1..Len(out) :
        out[i].kind \in {"title", "info", "header", "row"}
        => VisibleColumns(InnerOf(out[i].text)) = W

\* A device row of 78 columns has been printed under a header of 79.
C7_RowOf78 ==
    \E i \in 1..Len(out) : \E j \in 1..Len(out) :
        /\ out[i].kind = "header"
        /\ VisibleColumns(InnerOf(out[i].text)) = W
        /\ out[j].kind = "row"
        /\ VisibleColumns(InnerOf(out[j].text)) = W - 1

TempLevel(k) ==
    IF k >= 90000 THEN "critical"
    ELSE IF k >= 75000 THEN "warning"
    ELSE IF k >= 50000 THEN "nominal"
    ELSE "cool"

RatioLevel(k) ==
    IF k >= 900 THEN "critical"
    ELSE IF k >= 700 THEN "warning"
    ELSE IF k > 0 THEN "nominal"
    ELSE "idle"

ColorOf(level) ==
    CASE level = "critical" -> RED
      [] level = "warning" -> YELLOW
      [] level = "nominal" -> WHITE
      [] level = "cool" -> GREEN
      [] level = "idle" -> DIM

\* C8: a temperature is critical from 90, warning from 75, nominal from 50
\* and cool below; a utilisation ratio is critical from 0.9, warning from
\* 0.7, nominal (shown green) above 0 and idle at 0 and below; the lower
\* bounds are inclusive, and idle is shown apart from nominal.
C8_SeverityLevels ==
    sv.done =>
        /\ sv.tc = ColorOf(TempLevel(sv.temp_k))
        /\ sv.rc = IF RatioLevel(sv.ratio_k) = "nominal" THEN GREEN
                   ELSE ColorOf(RatioLevel(sv.ratio_k))
        /\ DIM # GREEN
        /\ Cardinality({RED, YELLOW, WHITE, GREEN}) = 4

\* 89.999 degrees has been classified warning, and a ratio of 0.0 idle.
C8_JustBelowCritical ==
    /\ sv.done
    /\ sv.temp_k = 89999
    /\ sv.tc = YELLOW
    /\ sv.ratio_k = 0
    /\ sv.rc = DIM

\* the sum of the byte counts xs, in the integers
RECURSIVE ExactSum(_, _)
ExactSum(xs, i) == IF i > Len(xs) THEN BigZero ELSE BigAdd(xs[i], ExactSum(xs, i + 1))

\* the sum of the numbers xs
RECURSIVE ExactSumF(_, _)
ExactSumF(xs, i) == IF i > Len(xs) THEN Zero ELSE RatAdd(xs[i], ExactSumF(xs, i + 1))

MeanTemp(gs) ==
    IF gs = <<>> THEN Zero
    ELSE RatDiv(ExactSumF([i \in 1..Len(gs) |-> gs[i].temp], 1), Rat(BigOfSmall(Len(gs)),
            BigOne))

\* C9 (as stated): the summary shows the number of devices, the sums of
\* vram_used and vram_total in GiB (one and no decimal), the sums of power
\* and power_cap, and the mean temperature (0 without devices); for the two
\* devices 20/24 GiB, 300 W/320 W, 92 degrees and 1/16 GiB, 50 W/300 W,
\* 40 degrees it shows 2, 21.0/40, 350/620 and 66.
C9_SummaryShowsSums ==
    summary.reported =>
        /\ summary.count = BigChars(BigOfSmall(Len(gpus)))
        /\ summary.used_gib
           = FmtFixed(Rat(ExactSum([i \in 1..Len(gpus) |-> gpus[i].vram_used], 1), TwoTo30), 1)
        /\ summary.total_gib
           = FmtFixed(Rat(ExactSum([i \in 1..Len(gpus) |-> gpus[i].vram_total], 1), TwoTo30), 0)
        /\ summary.power = FmtFixed(ExactSumF([i \in 1..Len(gpus) |-> gpus[i].power], 1), 0)
        /\ summary.cap = FmtFixed(ExactSumF([i \in 1..Len(gpus) |-> gpus[i].power_cap], 1), 0)
        /\ summary.avg = FmtFixed(MeanTemp(gpus), 0)
        /\ (concise = JoinLines(<<LineGpu0, LineGpu1>>) /\ vram_json = DocTwoDevices)
           => /\ summary.count = <<"2">>
              /\ summary.used_gib = <<"2", "1", ".", "0">>
              /\ summary.total_gib = <<"4", "0">>
              /\ summary.power = <<"3", "5", "0">>
              /\ summary.cap = <<"6", "2", "0">>
              /\ summary.avg = <<"6", "6">>

\* The summary of two devices of 2^64 - 1 bytes each has shown the total
\* of one.
C9_WrappedTotal ==
    /\ summary.reported
    /\ Len(gpus) = 2
    /\ gpus[1].vram_total = U64Max
    /\ gpus[2].vram_total = U64Max
    /\ summary.total_gib = FmtFixed(Rat(BigSub(U64Max, BigOne), TwoTo30), 0)

\* the text "GPU[<i>]"
NameTag(i) == LitGpu \o BigChars(BigOfSmall(i)) \o <<"]">>

\* text has a row of at least 10 tokens whose token 0 writes index i
HasHwRow(text, i) ==
    \E k \in 1..Len(Lines(text)) :
        /\ Len(SplitWhitespace(Lines(text)[k])) >= MinHwTokens
        /\ SplitWhitespace(Lines(text)[k])[1] = BigChars(BigOfSmall(i))

SameButFor(g, h, fields) ==
    \A f \in DOMAIN g \ fields : g[f] = h[f]

\* a step of enrichment keeps the list of records but for the fields that
\* are the step's own, and changes a record only for an entry at its index
KeepsRecords ==
    pc \in {"vram", "name", "hw"} =>
        /\ Len(gpus') = Len(gpus)
        /\ \A i \in 1..Len(gpus) :
              /\ pc = "vram" => SameButFor(gpus[i], gpus'[i], {"vram_total", "vram_used"})
              /\ pc = "name" => SameButFor(gpus[i], gpus'[i], {"name"})
              /\ pc = "hw" => SameButFor(gpus[i], gpus'[i], {"gfx_ver"})
              /\ (pc = "name" /\ gpus'[i].name # gpus[i].name)
                 => \E k \in 1..Len(prod') : MatchesAt(prod', k, NameTag(i - 1))
              /\ (pc = "hw" /\ gpus'[i].gfx_ver # gpus[i].gfx_ver)
                 => HasHwRow(hw', i - 1)

\* C10: the enrichment steps keep the list of records: its length and order,
\* and of every record the id, temp, power, power_cap and gpu_pct; memory
\* enrichment changes only vram_total and vram_used, name enrichment only
\* name, architecture enrichment only gfx_ver; and an entry of the name or
\* architecture listing changes the record at its index only, none if the
\* index is not below the length of the list.
C10_EnrichmentKeepsRecords == [][KeepsRecords]_vars

\* Of two records the name listing, with entries for indexes 0 and 5, has
\* named the first and left the second, and the architecture listing, with
\* rows for 0 and 1, has then marked both.
C10_NamedAndMarked ==
    /\ pc = "driver"
    /\ prod = ProdTwo
    /\ hw = HwBoth
    /\ Len(gpus) = 2
    /\ gpus[1].name = <<"A", "M", "D", " ", "I", "n", "s", "t", "i", "n", "c", "t", " ", "M",
            "I", "3", "0", "0", "X">>
    /\ gpus[2].name = <<>>
    /\ gpus[1].gfx_ver = <<"g", "f", "x", "9", "4", "2">>
    /\ gpus[2].gfx_ver = <<"g", "f", "x", "9", "0", "a">>
====
